---------------------------- MODULE Spec2Model ----------------------------
(***************************************************************************)
(* A model of the OpenRefine MCP adapter: the HTTP client                  *)
(* (openrefine_mcp/openrefine_client.py) and the dispatch layer            *)
(* (openrefine_mcp/openrefine_server.py).                                  *)
(*                                                                         *)
(* The client's coroutines run on one asyncio event loop: the code between *)
(* two awaits of a network call is one atomic step.  A call is therefore a *)
(* small state machine whose positions are the awaits it is suspended at;  *)
(* the wrapped server and the dataset host are the environment, which      *)
(* answers every request with any response of a finite menu.               *)
(***************************************************************************)
EXTENDS Integers, Sequences, FiniteSets, Bags, TLC

(***************************************************************************)
(* Bounds of the model.                                                    *)
(***************************************************************************)
\* calls issued in one run of the program; all of them may be suspended at
\* an await at the same time
MaxCalls == 2
MaxCallers == 3

(***************************************************************************)
(* Python values.                                                          *)
(***************************************************************************)
None == "None"

\* the status the validator and create_project single out
Found == 302

\* httpx.Response.is_success: raise_for_status raises for every status that
\* is not 2xx, the redirects included
is_success(status) == status >= 200 /\ status <= 299

\* the redirect statuses, 3xx (httpx does not follow them by default)
IsRedirect(status) == status >= 300 /\ status <= 399

\* dict.get(key, default) on a JSON object, a function from its keys
Get(obj, key, default) == IF key \in DOMAIN obj THEN obj[key] ELSE default

\* Python truthiness of a value that is None or a string
Truthy(v) == v # None /\ v # ""

(***************************************************************************)
(* Response bodies.  kind is "text" (json() raises JSONDecodeError),       *)
(* "other" (valid JSON that is no object: .get raises AttributeError) or   *)
(* "object", with obj the decoded object.                                  *)
(***************************************************************************)
Text == [kind |-> "text", obj |-> <<>>]
NonObject == [kind |-> "other", obj |-> <<>>]
Object(o) == [kind |-> "object", obj |-> o]
EmptyObject == <<>>

\* Location headers, as the pieces str.split("project=") works on: the
\* marker "project=" is one piece, every other character is one piece.
NoLocation == <<>>
ProjectMarker == "project="
Digits == {"0", "1", "2", "3", "4", "5", "6", "7", "8", "9"}
DigitVal(ch) ==
  CASE ch = "0" -> 0 [] ch = "1" -> 1 [] ch = "2" -> 2 [] ch = "3" -> 3
    [] ch = "4" -> 4 [] ch = "5" -> 5 [] ch = "6" -> 6 [] ch = "7" -> 7
    [] ch = "8" -> 8 [] ch = "9" -> 9

\* "project=" in location
HasMarker(location) == \E i \in 1..Len(location) : location[i] = ProjectMarker

\* location.split("project=")[1]: what lies between the first marker and the
\* next one (or the end)
SplitSecond(location) ==
  LET first == CHOOSE i \in 1..Len(location) :
                 /\ location[i] = ProjectMarker
                 /\ \A j \in 1..(i - 1) : location[j] # ProjectMarker
      later == {j \in (first + 1)..Len(location) : location[j] = ProjectMarker}
      stop == IF later = {} THEN Len(location) + 1
              ELSE CHOOSE j \in later : \A k \in later : j <= k
  IN SubSeq(location, first + 1, stop - 1)

\* int(text): whether text is a decimal literal (else int() raises ValueError)
IsIntLiteral(chars) ==
  chars # <<>> /\ \A i \in 1..Len(chars) : chars[i] \in Digits

\* int(text) on a decimal literal
RECURSIVE ParseDigits(_, _)
ParseDigits(chars, acc) ==
  IF chars = <<>> THEN acc
  ELSE ParseDigits(Tail(chars), 10 * acc + DigitVal(Head(chars)))

ParseInt(chars) == ParseDigits(chars, 0)

(***************************************************************************)
(* OpenRefineClient._validate_openrefine_response: "ok" when the response  *)
(* is returned, else the exception raised.                                 *)
(***************************************************************************)
ValidateBody(response) ==
  CASE response.body.kind = "text" -> "ok"
    [] response.body.kind = "other" -> "AttributeError"
    [] OTHER -> IF Get(response.body.obj, "code", None) = "error"
                THEN "ValueError" ELSE "ok"

\* a validator that skips the status check for every 3xx status
ValidateSkippingEveryRedirect(response) ==
  IF ~IsRedirect(response.status) /\ ~is_success(response.status)
  THEN "HTTPStatusError"
  ELSE ValidateBody(response)

_validate_openrefine_response(response) ==
  IF response.status # Found /\ ~is_success(response.status)
  THEN "HTTPStatusError"
  ELSE ValidateBody(response)

(***************************************************************************)
(* Requests, responses and the record of one call.                         *)
(***************************************************************************)
\* str(project_id): the decimal digits of a natural number
RECURSIVE FormatInt(_)
FormatInt(n) ==
  LET d == n % 10
      ch == CHOOSE c \in Digits : DigitVal(c) = d
  IN IF n < 10 THEN <<ch>> ELSE Append(FormatInt(n \div 10), ch)

Request(method, endpoint, params, data) ==
  [method |-> method, endpoint |-> endpoint, params |-> params, data |-> data]

Response(status, location, body) ==
  [net |-> "ok", status |-> status, location |-> location, body |-> body]

\* the request failed before any response (httpx.ConnectError)
Unreachable ==
  [net |-> "ConnectError", status |-> 0, location |-> NoLocation, body |-> Text]

\* no response received yet
NoResponse ==
  [net |-> "none", status |-> 0, location |-> NoLocation, body |-> Text]

Pending == [kind |-> "pending", exc |-> None, result |-> <<>>]
Raise(exc) == [kind |-> "raise", exc |-> exc, result |-> <<>>]
Return(result) == [kind |-> "return", exc |-> None, result |-> result]

ProjectInfo(project_id, name) == [project_id |-> project_id, name |-> name]
ApplySummary(applied, last_modified_ms) ==
  [applied |-> applied, last_modified_ms |-> last_modified_ms]

NoCall ==
  [op |-> None, args |-> <<>>, client |-> 0, pc |-> "none", sent |-> <<>>,
   resp |-> NoResponse, outcome |-> Pending]

Call(op, args, client) ==
  [op |-> op, args |-> args, client |-> client, pc |-> "start", sent |-> <<>>,
   resp |-> NoResponse, outcome |-> Pending]

(***************************************************************************)
(* The state.                                                              *)
(***************************************************************************)
VARIABLES
  _client,      \* openrefine_server._client: <<>> for None, else <<instance>>
  constructed,  \* how many OpenRefineClient instances were constructed
  _csrf_token,  \* OpenRefineClient._csrf_token of every instance
  closed,       \* whether the instance's httpx.AsyncClient is closed
  scope,        \* the position of a program using `async with`
  inflight,     \* the calls suspended at an await, a bag of call records
  last,         \* the call that completed most recently
  ncalls,       \* calls issued so far
  ntokens,      \* tokens the server's token endpoint has issued so far
  token_requests  \* requests the token endpoint has been sent so far

vars == <<_client, constructed, _csrf_token, closed, scope, inflight, last,
          ncalls, ntokens, token_requests>>

\* the n-th token the wrapped server issues: a fresh one on every request
TokenNames == <<"tk1", "tk2", "tk3", "tk4", "tk5", "tk6">>
Token(n) == TokenNames[n]
Issued == {Token(n) : n \in 1..ntokens}

InFlight == BagToSet(inflight)

(***************************************************************************)
(* What the environment may answer.                                        *)
(***************************************************************************)
Statuses == {200, 301, Found, 404}

DatasetResponses ==
  {Response(st, NoLocation, Text) : st \in Statuses}
    \cup {Response(200, NoLocation, Object([code |-> "error"])), Unreachable}

\* the token endpoint; Token(ntokens + 1) is the token it issues next
TokenResponses ==
  {Response(200, NoLocation, Object(o)) :
     o \in {EmptyObject, [token |-> ""], [token |-> Token(ntokens + 1)],
            [code |-> "error"]}}
    \cup {Response(200, NoLocation, Text), Response(200, NoLocation, NonObject),
          Response(404, NoLocation, Text), Unreachable}

Locations ==
  {NoLocation,
   <<"/", "o", "k">>,
   <<"/", "p", "?", ProjectMarker, "7">>,
   <<"/", "p", "?", ProjectMarker, "1", "2">>,
   <<"/", "p", "?", ProjectMarker, "7", "&", "x">>}

CreateResponses ==
  {Response(st, loc, Text) : st \in {301, Found}, loc \in Locations}
    \cup {Response(Found, NoLocation, Object([code |-> "error"])),
          Response(Found, NoLocation, NonObject)}
    \cup {Response(200, NoLocation, b) :
            b \in {Text, NonObject, Object(EmptyObject),
                   Object([projectID |-> 7]),
                   Object([projectID |-> 7, projectName |-> "B"]),
                   Object([code |-> "error"])}}
    \cup {Response(404, NoLocation, Text), Unreachable}

CodeObjects ==
  {EmptyObject, [code |-> "ok"], [code |-> "pending"], [code |-> "error"]}

ApplyResponses ==
  {Response(200, NoLocation, Object(o)) :
     o \in CodeObjects \cup {[code |-> "ok", lastModified |-> 5],
                             [lastModified |-> 5]}}
    \cup {Response(200, NoLocation, Text), Response(Found, NoLocation, Object([code |-> "ok"])),
          Response(404, NoLocation, Object([code |-> "error"])), Unreachable}

ExportResponses ==
  {Response(200, NoLocation, Text), Response(200, NoLocation, Object([code |-> "error"])),
   Response(404, NoLocation, Text), Unreachable}

DeleteResponses ==
  {Response(200, NoLocation, Object(o)) : o \in CodeObjects}
    \cup {Response(200, NoLocation, Text), Response(Found, NoLocation, Object([code |-> "ok"])),
          Response(404, NoLocation, Object([code |-> "ok"])), Unreachable}

\* the models body: complete, or with a required nested object missing
ModelsResponses ==
  {Response(200, NoLocation, Object(o)) :
     o \in {[columnModel |-> "cm", recordModel |-> "rm", scripting |-> "s"],
            [columnModel |-> "cm", recordModel |-> "rm", scripting |-> "s",
             overlayModels |-> "om"],
            [columnModel |-> "cm", scripting |-> "s"],
            [code |-> "error"]}}
    \cup {Response(200, NoLocation, Text), Response(404, NoLocation, Text), Unreachable}

(***************************************************************************)
(* The client's code between awaits.  Each operator below is one           *)
(* synchronous stretch of a coroutine; it yields the call's record after   *)
(* the stretch (suspended at the next await, or done) and, where the       *)
(* stretch can assign it, the instance's _csrf_token.                      *)
(***************************************************************************)
send(call, request, pc) ==
  [call EXCEPT !.sent = Append(@, request), !.pc = pc]

Done(call, response, outcome) ==
  [call EXCEPT !.pc = "done", !.resp = response, !.outcome = outcome]

Step(call, token) == [call |-> call, token |-> token]

\* json.dumps of the structured operations value
json_dumps(value) == "[]"

\* the POST an operation makes: endpoint, params and form data
PostEndpoint(call) ==
  CASE call.op = "create_project" -> "create-project-from-upload"
    [] call.op = "apply_operations" -> "apply-operations"
    [] call.op = "export_csv" -> "export-rows"
    [] call.op = "delete_project" -> "delete-project"

PostParams(call) ==
  CASE call.op = "create_project" -> <<>>
    [] call.op = "export_csv" ->
         [project |-> FormatInt(call.args.project_id), format |-> "csv"]
    [] OTHER -> [project |-> FormatInt(call.args.project_id)]

PostData(call) ==
  CASE call.op = "create_project" ->
         IF Truthy(call.args.name) THEN ("project-name" :> call.args.name)
         ELSE <<>>
    [] call.op = "apply_operations" ->
         [operations |-> IF "text" \in DOMAIN call.args.operations
                         THEN call.args.operations.text
                         ELSE json_dumps(call.args.operations.value)]
    [] OTHER -> <<>>

\* _post once the token is known: attach it and POST
PostSend(call, csrf_token) ==
  send(call,
       Request("POST", PostEndpoint(call),
               PostParams(call) @@ [csrf_token |-> csrf_token], PostData(call)),
       "post")

\* _post up to its first await: _get_csrf_token either asks the token
\* endpoint or returns the cached field
PostBegin(call, cached) ==
  IF cached = None
  THEN send(call, Request("GET", "get-csrf-token", <<>>, <<>>), "token")
  ELSE PostSend(call, cached)

\* a _get_csrf_token that hands _post the value the field had before the
\* request instead of the token it fetched
TokenReceivedUsingCached(call, response, cached) ==
  LET recv == [call EXCEPT !.resp = response]
      v == _validate_openrefine_response(response)
  IN IF response.net # "ok" THEN Step(Done(call, response, Raise("ConnectError")), cached)
     ELSE IF v # "ok" THEN Step(Done(call, response, Raise(v)), cached)
     ELSE IF response.body.kind = "text"
     THEN Step(Done(call, response, Raise("JSONDecodeError")), cached)
     ELSE LET token == Get(response.body.obj, "token", None)
          IN IF ~Truthy(token)
             THEN Step(Done(call, response, Raise("ValueError")), token)
             ELSE Step(PostSend(recv, cached), token)

\* _get_csrf_token after its await, then the rest of _post
TokenReceived(call, response, cached) ==
  LET recv == [call EXCEPT !.resp = response]
      v == _validate_openrefine_response(response)
  IN IF response.net # "ok" THEN Step(Done(call, response, Raise("ConnectError")), cached)
     ELSE IF v # "ok" THEN Step(Done(call, response, Raise(v)), cached)
     ELSE IF response.body.kind = "text"
     THEN Step(Done(call, response, Raise("JSONDecodeError")), cached)
     ELSE LET token == Get(response.body.obj, "token", None)
          IN IF ~Truthy(token)
             THEN Step(Done(call, response, Raise("ValueError")), token)
             ELSE Step(PostSend(recv, token), token)

\* create_project up to its first await: the download of the dataset
create_project(call) ==
  send(call, Request("GET", "dataset_url", <<>>, <<>>), "dataset")

\* create_project after the download, up to the first await of _post
DatasetReceived(call, response, cached) ==
  LET v == _validate_openrefine_response(response)
  IN IF response.net # "ok" THEN Done(call, response, Raise("ConnectError"))
     ELSE IF v # "ok" THEN Done(call, response, Raise(v))
     ELSE PostBegin([call EXCEPT !.resp = response], cached)

\* name or "Untitled"
NameOrUntitled(name) == IF Truthy(name) THEN name ELSE "Untitled"

\* a create_project that defaults the project id it does not find
CreateResultDefaulting(response, name) ==
  IF response.status = Found
  THEN IF HasMarker(response.location) /\ IsIntLiteral(SplitSecond(response.location))
       THEN Return(ProjectInfo(ParseInt(SplitSecond(response.location)),
                               NameOrUntitled(name)))
       ELSE Return(ProjectInfo(0, NameOrUntitled(name)))
  ELSE IF response.body.kind = "text" THEN Raise("ValueError")
       ELSE Return(ProjectInfo(Get(response.body.obj, "projectID", 0),
                               Get(response.body.obj, "projectName",
                                   NameOrUntitled(name))))

\* create_project after _post returned the validated response
CreateResult(response, name) ==
  IF response.status = Found
  THEN IF HasMarker(response.location)
       THEN LET project_id == SplitSecond(response.location)
            IN IF IsIntLiteral(project_id)
               THEN Return(ProjectInfo(ParseInt(project_id), NameOrUntitled(name)))
               ELSE Raise("ValueError")
       ELSE Raise("ValueError")
  ELSE IF response.body.kind = "text" THEN Raise("ValueError")
       ELSE IF "projectID" \notin DOMAIN response.body.obj
            THEN Raise("ValueError")
            ELSE Return(ProjectInfo(response.body.obj.projectID,
                                    Get(response.body.obj, "projectName",
                                        NameOrUntitled(name))))

\* an apply_operations that takes an absent code for "ok"
ApplyResultDefaultOk(response) ==
  IF response.body.kind = "text" THEN Raise("JSONDecodeError")
  ELSE Return(ApplySummary(Get(response.body.obj, "code", "ok") = "ok",
                           IF "lastModified" \in DOMAIN response.body.obj
                           THEN response.body.obj.lastModified ELSE 0))

\* apply_operations after _post returned the validated response
ApplyResult(response) ==
  IF response.body.kind = "text" THEN Raise("JSONDecodeError")
  ELSE Return(ApplySummary(Get(response.body.obj, "code", "error") = "ok",
                           IF "lastModified" \in DOMAIN response.body.obj
                           THEN response.body.obj.lastModified ELSE 0))

\* export_csv after _post returned the validated response
ExportResult(response) == Return([content |-> response.body])

\* a delete_project that is true for every code but "error"
DeleteResultUnlessError(response) ==
  IF response.body.kind = "text" THEN Raise("JSONDecodeError")
  ELSE Return([deleted |-> Get(response.body.obj, "code", "error") # "error"])

\* delete_project after _post returned the validated response
DeleteResult(response) ==
  IF response.body.kind = "text" THEN Raise("JSONDecodeError")
  ELSE Return([deleted |-> Get(response.body.obj, "code", "error") = "ok"])

\* _post after its POST, then the rest of the operation
PostReceived(call, response) ==
  LET v == _validate_openrefine_response(response)
  IN IF response.net # "ok" THEN Done(call, response, Raise("ConnectError"))
     ELSE IF v # "ok" THEN Done(call, response, Raise(v))
     ELSE Done(call, response,
               CASE call.op = "create_project" -> CreateResult(response, call.args.name)
                 [] call.op = "apply_operations" -> ApplyResult(response)
                 [] call.op = "export_csv" -> ExportResult(response)
                 [] call.op = "delete_project" -> DeleteResult(response))

\* a get_project_models that attaches the cached token
get_project_models_with_token(call, cached) ==
  send(call,
       Request("GET", "get-models",
               [project |-> FormatInt(call.args.project_id), csrf_token |-> cached],
               <<>>),
       "get")

\* get_project_models up to the await of _get
get_project_models(call, cached) ==
  send(call,
       Request("GET", "get-models", [project |-> FormatInt(call.args.project_id)], <<>>),
       "get")

\* ProjectModels(**result): the fields without a default are required
RequiredModels == {"columnModel", "recordModel", "scripting"}

\* _get after its await, then the rest of get_project_models
GetReceived(call, response) ==
  LET v == _validate_openrefine_response(response)
  IN IF response.net # "ok" THEN Done(call, response, Raise("ConnectError"))
     ELSE IF v # "ok" THEN Done(call, response, Raise(v))
     ELSE IF response.body.kind = "text"
     THEN Done(call, response, Raise("JSONDecodeError"))
     ELSE IF ~(RequiredModels \subseteq DOMAIN response.body.obj)
     THEN Done(call, response, Raise("ValidationError"))
     ELSE Done(call, response,
               Return([column_model |-> response.body.obj.columnModel,
                       record_model |-> response.body.obj.recordModel,
                       overlay_models |-> Get(response.body.obj, "overlayModels", "{}"),
                       scripting |-> response.body.obj.scripting]))

\* the first stretch of an operation on its client
Begin(call, cached) ==
  CASE call.op = "create_project" -> create_project(call)
    [] call.op = "get_project_models" -> get_project_models(call, cached)
    [] OTHER -> PostBegin(call, cached)

(***************************************************************************)
(* Actions.                                                                *)
(***************************************************************************)
\* The program is the server, whose entry points share the client of
\* get_client (scope "none"), or one that uses a client of its own in an
\* `async with` block (scope "outside", then "inside", then "exited").
Init ==
  /\ _client = <<>>
  /\ constructed = 0
  /\ _csrf_token = <<>>
  /\ closed = <<>>
  /\ scope \in {"none", "outside"}
  /\ inflight = EmptyBag
  /\ last = NoCall
  /\ ncalls = 0
  /\ ntokens = 0
  /\ token_requests = 0

\* OpenRefineClient.__init__: a new instance, with no token and an open
\* httpx.AsyncClient
Construct ==
  /\ constructed' = constructed + 1
  /\ _csrf_token' = Append(_csrf_token, None)
  /\ closed' = Append(closed, FALSE)

\* a get_client without the test of _client
get_client_unconditional ==
  /\ Construct
  /\ _client' = <<constructed + 1>>

\* openrefine_server.get_client: no await between the test and the assignment
get_client ==
  IF _client = <<>>
  THEN /\ Construct
       /\ _client' = <<constructed + 1>>
  ELSE UNCHANGED <<_client, constructed, _csrf_token, closed>>

\* how many of the requests `call` has sent went to the token endpoint
TokenRequestsIn(call) ==
  Cardinality({i \in 1..Len(call.sent) : call.sent[i].endpoint = "get-csrf-token"})

\* a call starts: its first stretch runs, and it is suspended at an await
Start(call) ==
  LET begun == Begin(call, _csrf_token'[call.client])
  IN /\ inflight' = inflight (+) SetToBag({begun})
     /\ ncalls' = ncalls + 1
     /\ token_requests' = token_requests + TokenRequestsIn(begun)
     /\ UNCHANGED <<last, ntokens, scope>>

Issue(call) ==
  /\ ncalls < MaxCalls
  /\ Start(call)

Names == {None, "A"}
ProjectIds == {7, 99999}
Operations == {[text |-> "[]"], [value |-> "list"]}

\* the dispatch layer's entry points
tool_create_project(name) ==
  /\ scope = "none"
  /\ get_client
  /\ Issue(Call("create_project", [name |-> name], _client'[1]))

tool_apply_operations(project_id, operations) ==
  /\ scope = "none"
  /\ get_client
  /\ Issue(Call("apply_operations",
                [project_id |-> project_id, operations |-> operations], _client'[1]))

tool_export_csv(project_id) ==
  /\ scope = "none"
  /\ get_client
  /\ Issue(Call("export_csv", [project_id |-> project_id], _client'[1]))

tool_delete_project(project_id) ==
  /\ scope = "none"
  /\ get_client
  /\ Issue(Call("delete_project", [project_id |-> project_id], _client'[1]))

get_project_models_resource(project_id) ==
  /\ scope = "none"
  /\ get_client
  /\ Issue(Call("get_project_models", [project_id |-> project_id], _client'[1]))

\* a stretch of `call` ran: it is suspended again, or it completed
Resume(call, next) ==
  /\ inflight' = IF next.pc = "done" THEN inflight (-) SetToBag({call})
                 ELSE (inflight (-) SetToBag({call})) (+) SetToBag({next})
  /\ last' = IF next.pc = "done" THEN next ELSE last
  /\ token_requests' = token_requests + TokenRequestsIn(next) - TokenRequestsIn(call)
  /\ UNCHANGED <<_client, constructed, closed, scope, ncalls>>

\* the dataset host answers the download of create_project
DatasetReply ==
  \E call \in InFlight : \E response \in DatasetResponses :
    /\ call.pc = "dataset"
    /\ Resume(call, DatasetReceived(call, response, _csrf_token[call.client]))
    /\ UNCHANGED <<_csrf_token, ntokens>>

\* the token endpoint answers
TokenReply ==
  \E call \in InFlight : \E response \in TokenResponses :
    LET step == TokenReceived(call, response, _csrf_token[call.client])
    IN /\ call.pc = "token"
       /\ Resume(call, step.call)
       /\ _csrf_token' = [_csrf_token EXCEPT ![call.client] = step.token]
       /\ ntokens' = IF /\ response.body.kind = "object"
                        /\ Get(response.body.obj, "token", "") = Token(ntokens + 1)
                     THEN ntokens + 1 ELSE ntokens

PostResponses(op) ==
  CASE op = "create_project" -> CreateResponses
    [] op = "apply_operations" -> ApplyResponses
    [] op = "export_csv" -> ExportResponses
    [] op = "delete_project" -> DeleteResponses

\* a mutating endpoint answers
PostReply ==
  \E call \in {c \in InFlight : c.pc = "post"} :
    \E response \in PostResponses(call.op) :
    /\ Resume(call, PostReceived(call, response))
    /\ UNCHANGED <<_csrf_token, ntokens>>

\* the models endpoint answers
GetReply ==
  \E call \in InFlight : \E response \in ModelsResponses :
    /\ call.pc = "get"
    /\ Resume(call, GetReceived(call, response))
    /\ UNCHANGED <<_csrf_token, ntokens>>

\* `async with OpenRefineClient(...) as client:` is entered
AEnter ==
  /\ scope = "outside"
  /\ Construct
  /\ scope' = "inside"
  /\ UNCHANGED <<_client, inflight, last, ncalls, ntokens, token_requests>>

\* the block awaits one operation of its client after the other; an
\* exception leaves the block
ScopedArgs(op) ==
  CASE op = "create_project" -> {[name |-> n] : n \in Names}
    [] op = "apply_operations" ->
         {[project_id |-> p, operations |-> o] : p \in {7}, o \in Operations}
    [] OTHER -> {[project_id |-> p] : p \in ProjectIds}

ScopedCall ==
  \E op \in {"create_project", "apply_operations", "export_csv", "delete_project",
             "get_project_models"} :
    \E args \in ScopedArgs(op) :
      /\ scope = "inside"
      /\ inflight = EmptyBag
      /\ last.outcome.kind # "raise"
      /\ UNCHANGED <<_client, constructed, _csrf_token, closed>>
      /\ Issue(Call(op, args, constructed))

\* an __aexit__ that closes on the normal path only
close_unless_failed(client) ==
  closed' = [closed EXCEPT ![client] = (last.outcome.kind # "raise")]

\* OpenRefineClient.close
close(client) == closed' = [closed EXCEPT ![client] = TRUE]

\* __aexit__, on the normal end of the block and on an exception
AExit ==
  /\ scope = "inside"
  /\ inflight = EmptyBag
  /\ close(constructed)
  /\ scope' = "exited"
  /\ UNCHANGED <<_client, constructed, _csrf_token, inflight, last, ncalls, ntokens,
                 token_requests>>

Next ==
  \/ \E name \in Names : tool_create_project(name)
  \/ \E operations \in Operations : tool_apply_operations(7, operations)
  \/ tool_export_csv(7)
  \/ \E project_id \in ProjectIds : tool_delete_project(project_id)
  \/ get_project_models_resource(7)
  \/ DatasetReply
  \/ TokenReply
  \/ PostReply
  \/ GetReply
  \/ AEnter
  \/ ScopedCall
  \/ AExit

Spec == Init /\ [][Next]_vars

(***************************************************************************)
(* The race on the token: the server's entry points are called as often as *)
(* MaxCallers allows, each call suspended at its awaits while others       *)
(* start, and only mutating operations are called.                         *)
(***************************************************************************)
RaceInit == Init /\ scope = "none"

\* one more caller enters a mutating entry point of the server
Caller(op, args) ==
  /\ scope = "none"
  /\ ncalls < MaxCallers
  /\ get_client
  /\ Start(Call(op, args, _client'[1]))

RaceNext ==
  \/ Caller("apply_operations", [project_id |-> 7, operations |-> [text |-> "[]"]])
  \/ Caller("export_csv", [project_id |-> 7])
  \/ Caller("delete_project", [project_id |-> 7])
  \/ TokenReply
  \/ PostReply

RaceSpec == RaceInit /\ [][RaceNext]_vars

(***************************************************************************)
(* What the claims speak of.                                               *)
(***************************************************************************)
\* the calls the state holds: those suspended, and the last one completed
Calls == InFlight \cup (IF last.pc = "done" THEN {last} ELSE {})

\* the request call.resp answers (0 before any response)
Answered(call) ==
  IF call.pc = "done" THEN Len(call.sent)
  ELSE IF call.resp.net = "none" THEN 0 ELSE Len(call.sent) - 1

\* the call completed, and its last response answers a request to `endpoint`
CompletedAt(call, endpoint) ==
  /\ call.pc = "done"
  /\ call.sent[Len(call.sent)].endpoint = endpoint

MutatingEndpoints ==
  {"create-project-from-upload", "apply-operations", "export-rows", "delete-project"}

Requests(call) == {call.sent[i] : i \in 1..Len(call.sent)}

TransportErrors == {"HTTPStatusError", "ConnectError"}

HasCode(response, code) ==
  /\ response.body.kind = "object"
  /\ "code" \in DOMAIN response.body.obj
  /\ response.body.obj.code = code

----------------------------------------------------------------------------
\* C1: every request to a mutating endpoint carries a csrf_token parameter
\* whose value is a non-empty token the token endpoint issued; and a call
\* whose token request is answered with an absent or empty token fails with
\* a value error without sending a mutating request.
C1_MutatingRequestsCarryIssuedToken ==
  /\ \A call \in Calls : \A request \in Requests(call) :
       request.endpoint \in MutatingEndpoints =>
         /\ "csrf_token" \in DOMAIN request.params
         /\ request.params.csrf_token # ""
         /\ request.params.csrf_token \in Issued
  /\ \A call \in Calls :
       /\ CompletedAt(call, "get-csrf-token")
       /\ call.resp.net = "ok"
       /\ is_success(call.resp.status)
       /\ call.resp.body.kind = "object"
       /\ Get(call.resp.body.obj, "token", "") = ""
       /\ ~HasCode(call.resp, "error")
       => /\ call.outcome = Raise("ValueError")
          /\ \A request \in Requests(call) : request.endpoint \notin MutatingEndpoints

----------------------------------------------------------------------------
\* C2: a create_project whose download of dataset_url is answered with a
\* non-success status (a redirect status included), or not at all, fails with
\* a transport error, and has sent neither a token request nor the upload.
C2_FailedDownloadStopsCreate ==
  \A call \in Calls :
    /\ call.op = "create_project"
    /\ Answered(call) = 1
    /\ call.resp.net = "ConnectError" \/ ~is_success(call.resp.status)
    => /\ call.pc = "done"
       /\ call.outcome.kind = "raise"
       /\ call.outcome.exc \in TransportErrors
       /\ Len(call.sent) = 1

----------------------------------------------------------------------------
\* C3: a create_project that returns gives a project_id that is a
\* non-negative integer, and a name that is the caller's when the caller
\* gave one, else the server's projectName on the JSON shape, else
\* "Untitled" (never the empty string).
C3_CreateResult ==
  \A call \in Calls :
    call.op = "create_project" /\ call.outcome.kind = "return" =>
      /\ call.outcome.result.project_id \in Nat
      /\ call.args.name # None => call.outcome.result.name = call.args.name
      /\ call.args.name = None =>
           /\ call.outcome.result.name # ""
           /\ call.outcome.result.name =
                IF call.resp.status # Found
                THEN Get(call.resp.body.obj, "projectName", "Untitled")
                ELSE "Untitled"

----------------------------------------------------------------------------
\* C4: a delete_project that returns, returns true exactly when the code
\* field of the response is "ok"; and when the server answers the deletion
\* with its success ({"code": "ok"}), as it does for a project that does not
\* exist, delete_project returns true and does not raise, whatever the id
\* and however often it is repeated.
C4_DeleteTrueIffCodeOk ==
  \A call \in Calls :
    CompletedAt(call, "delete-project") =>
      /\ call.outcome.kind = "return" =>
           (call.outcome.result.deleted <=> HasCode(call.resp, "ok"))
      /\ call.resp.net = "ok" /\ is_success(call.resp.status)
           /\ HasCode(call.resp, "ok")
         => call.outcome = Return([deleted |-> TRUE])

\* the second call on the client, with the cached token, deleted the id that
\* no project has, and returned true
C4_Witness ==
  /\ CompletedAt(last, "delete-project")
  /\ last.args.project_id = 99999
  /\ last.outcome = Return([deleted |-> TRUE])
  /\ Len(last.sent) = 1
  /\ ncalls = 2

----------------------------------------------------------------------------
\* C5: whatever the interleaving of the dispatch layer's entry points,
\* get_client constructs at most one OpenRefineClient, and every call of an
\* entry point runs on the instance the global _client holds.
C5_OneClient ==
  /\ constructed <= 1
  /\ scope = "none" =>
       \A call \in Calls : _client # <<>> /\ call.client = _client[1]

\* two entry points are suspended at the same time, on the one instance
C5_Witness ==
  /\ scope = "none"
  /\ BagCardinality(inflight) = 2
  /\ constructed = 1

----------------------------------------------------------------------------
\* C6: once the `async with` block of a client is left, the client's HTTP
\* connection is closed, whether the block ended normally or an operation in
\* it raised.
C6_ClosedAfterExit ==
  scope = "exited" => \A client \in DOMAIN closed : closed[client]

\* the block was left by the exception of an operation, and the client is
\* closed
C6_Witness ==
  /\ scope = "exited"
  /\ last.pc = "done"
  /\ last.outcome.kind = "raise"
  /\ closed[last.client]

----------------------------------------------------------------------------
\* C7: get_project_models sends one request, the GET of the models endpoint
\* with the project id alone (no csrf_token parameter, no request to the token
\* endpoint), and no step of it changes the _csrf_token of a client, whether a
\* token is cached or not and whether the call succeeds or fails.
ModelsCalls(bag) == {call \in BagToSet(bag) : call.op = "get_project_models"}

ModelsStep ==
  \E call \in ModelsCalls(inflight) \cup ModelsCalls(inflight') :
    CopiesIn(call, inflight) # CopiesIn(call, inflight')

C7_ModelsUnauthenticated ==
  /\ [](\A call \in Calls :
          call.op = "get_project_models" =>
            call.sent = <<Request("GET", "get-models",
                                  [project |-> FormatInt(call.args.project_id)],
                                  <<>>)>>)
  /\ [][ModelsStep =>
          \A client \in DOMAIN _csrf_token :
            _csrf_token'[client] = _csrf_token[client]]_vars

\* get_project_models completed on a client that holds a token
C7_Witness ==
  /\ CompletedAt(last, "get-models")
  /\ _csrf_token[last.client] = "tk1"

----------------------------------------------------------------------------
\* C8 as claimed: an unexpected creation response (a redirect without
\* project=<id>, a body that is not JSON, a JSON object without a project
\* identifier) makes create_project fail with a value error.
NoProjectIn(response) ==
  ~HasMarker(response.location) /\ response.body.kind # "other"

UnexpectedBody(response) ==
  /\ is_success(response.status)
  /\ \/ response.body.kind = "text"
     \/ /\ response.body.kind = "object"
        /\ "projectID" \notin DOMAIN response.body.obj

C8_UnexpectedCreationIsValueError ==
  \A call \in Calls :
    /\ CompletedAt(call, "create-project-from-upload")
    /\ call.resp.net = "ok"
    /\ \/ IsRedirect(call.resp.status) /\ NoProjectIn(call.resp)
       \/ UnexpectedBody(call.resp)
    => call.outcome = Raise("ValueError")

\* C8, amended: the redirect that fails with a value error is the 302 one
\* (its body an object or not JSON); a redirect of another 3xx status fails
\* with a transport error.  None of them returns a ProjectInfo.
C8_Unexpected302IsValueError ==
  \A call \in Calls :
    CompletedAt(call, "create-project-from-upload") /\ call.resp.net = "ok" =>
      /\ \/ call.resp.status = Found /\ NoProjectIn(call.resp)
         \/ UnexpectedBody(call.resp)
         => call.outcome = Raise("ValueError")
      /\ IsRedirect(call.resp.status) /\ call.resp.status # Found
         => call.outcome = Raise("HTTPStatusError")

\* a 302 without project=<id> made create_project raise ValueError
C8_Witness ==
  /\ CompletedAt(last, "create-project-from-upload")
  /\ last.resp.status = Found
  /\ ~HasMarker(last.resp.location)
  /\ last.resp.body.kind = "text"
  /\ last.outcome = Raise("ValueError")

----------------------------------------------------------------------------
\* C9: an apply_operations that returns gives applied = (the response's code
\* field is "ok") and last_modified_ms = the response's lastModified, or 0
\* without one: a function of the response body alone.
C9_ApplySummary ==
  \A call \in Calls :
    CompletedAt(call, "apply-operations") /\ call.outcome.kind = "return" =>
      call.outcome.result =
        ApplySummary(HasCode(call.resp, "ok"),
                     IF "lastModified" \in DOMAIN call.resp.body.obj
                     THEN call.resp.body.obj.lastModified ELSE 0)

\* apply_operations returned on a response with neither field
C9_Witness ==
  /\ CompletedAt(last, "apply-operations")
  /\ last.resp.body = Object(EmptyObject)
  /\ last.outcome = Return(ApplySummary(FALSE, 0))

----------------------------------------------------------------------------
\* Response validation, with Skipped the statuses whose check is skipped:
\* no transport error for a skipped status; a transport error for any other
\* non-success status, whatever the body; then a value error for a JSON body
\* whose code is "error"; a body that is not JSON is accepted, and the
\* operation goes on with the response.
Validation(call, Skipped(_)) ==
  LET response == call.resp
      passes == Skipped(response.status) \/ is_success(response.status)
  IN response.net = "ok" =>
       IF call.pc = "done"
       THEN /\ Skipped(response.status) => call.outcome # Raise("HTTPStatusError")
            /\ ~passes => call.outcome = Raise("HTTPStatusError")
            /\ passes /\ HasCode(response, "error") =>
                 call.outcome = Raise("ValueError")
            /\ passes /\ response.body.kind = "text" =>
                 /\ call.outcome.exc \notin {"HTTPStatusError", "AttributeError"}
                 /\ CompletedAt(call, "export-rows") =>
                      call.outcome = Return([content |-> response.body])
       ELSE passes /\ ~HasCode(response, "error")

Is302(status) == status = Found

\* C10 as claimed: the status check is skipped for every redirect status.
C10_ValidationSkipsRedirects ==
  \A call \in Calls : Validation(call, IsRedirect)

\* C10, amended: the status check is skipped for status 302 alone; every other
\* non-success status, the other redirects included, is a transport error.
C10_ValidationSkips302 ==
  \A call \in Calls : Validation(call, Is302)

\* a 404 whose body says code "error" raised the transport error
C10_Witness ==
  /\ last.pc = "done"
  /\ last.resp.status = 404
  /\ HasCode(last.resp, "error")
  /\ last.outcome = Raise("HTTPStatusError")

----------------------------------------------------------------------------
\* the calls of `client` that were suspended at `pc` by this step
Sent(client, pc) ==
  {call \in BagToSet(inflight') \ InFlight : call.client = client /\ call.pc = pc}

\* C11: once an instance has cached a token value, no step changes the
\* cached-token field to a different value, no step sends a further request
\* to the token endpoint for that instance, and every mutating request a step
\* sends for it carries the cached token.
C11_CachedTokenIsFinal ==
  [][\A client \in DOMAIN _csrf_token :
       Truthy(_csrf_token[client]) =>
         /\ _csrf_token'[client] = _csrf_token[client]
         /\ Sent(client, "token") = {}
         /\ \A call \in Sent(client, "post") :
              call.sent[Len(call.sent)].params.csrf_token = _csrf_token[client]]_vars

----------------------------------------------------------------------------
\* the call sent a token request of its own
Fetched(call) == TokenRequestsIn(call) = 1

\* the request the call sent last
LastSent(call) == call.sent[Len(call.sent)]

\* C12, the part on the callers: a caller that sent a token request of its own
\* and was answered with a non-empty token sends its mutating request with
\* exactly that token, a token the token endpoint issued; it stops after the
\* token request only when the answer carries no such token.
FetchedTokenIsUsed ==
  \A call \in Calls :
    Fetched(call) =>
      /\ call.pc = "post" =>
           /\ Get(call.resp.body.obj, "token", None) \in Issued
           /\ LastSent(call).params.csrf_token = call.resp.body.obj.token
      /\ LastSent(call).endpoint # "get-csrf-token" =>
           /\ LastSent(call).endpoint \in MutatingEndpoints
           /\ LastSent(call).params.csrf_token \in Issued
      /\ CompletedAt(call, "get-csrf-token") =>
           ~ /\ call.resp.net = "ok"
             /\ is_success(call.resp.status)
             /\ call.resp.body.kind = "object"
             /\ ~HasCode(call.resp, "error")
             /\ Truthy(Get(call.resp.body.obj, "token", None))

\* C12 as claimed: however many callers race, at most two requests are sent
\* to the token endpoint, and every caller sends its mutating request with a
\* token the server issued.
C12_AtMostTwoTokenRequests ==
  /\ token_requests <= 2
  /\ FetchedTokenIsUsed

\* C12, amended: every caller that finds no cached token sends one token
\* request, so the requests to the token endpoint number at most the callers
\* (and not at most two); a caller answered with a non-empty token sends its
\* mutating request with that token.
C12_OneTokenRequestPerCaller ==
  /\ token_requests <= ncalls
  /\ \A call \in Calls : TokenRequestsIn(call) <= 1
  /\ FetchedTokenIsUsed

\* three callers raced, three token requests were sent, and a caller has sent
\* its mutating request with the token of its own answer
C12_Witness ==
  /\ ncalls = 3
  /\ token_requests = 3
  /\ \E call \in InFlight :
       /\ Fetched(call)
       /\ call.pc = "post"
       /\ LastSent(call).params.csrf_token = call.resp.body.obj.token
       /\ LastSent(call).params.csrf_token # _csrf_token[call.client]

=============================================================================
